---- MODULE Spec2Model ----
(***************************************************************************)
(* State-machine model of the `slots` Anchor program                       *)
(* (program/programs/slots/src/lib.rs).                                    *)
(*                                                                         *)
(* Accounts are records carrying their lamports and their data fields.     *)
(* Every instruction handler is an operator from the accounts it is given  *)
(* to a result record: the error it returned ("Ok" when none) and the      *)
(* accounts as the handler left them at the point where it returned.  The  *)
(* runtime keeps the handler's writes only when it returned Ok (Commit).   *)
(*                                                                         *)
(* Arithmetic is the arithmetic of a release build: `+=` on the u16 spin   *)
(* counter and `*=`, `<<` on the u64 seed wrap.  The u64 seed is kept as 8 *)
(* little-endian bytes because its values do not fit a TLC integer.  The   *)
(* Treasury's lamports are kept in two limbs (lamports_hi counts whole      *)
(* LamportsLimb, lamports the rest) because after some sixty thousand      *)
(* spins they exceed a TLC integer.  All other lamport amounts of the      *)
(* model stay below 2^31, far from the u64 range, so checked_add on        *)
(* lamports and on the reward pool never overflows here.                   *)
(***************************************************************************)
EXTENDS Integers, Sequences, FiniteSets, TLC

----------------------------------------------------------------------------
(* Program constants (lib.rs lines 9-13) *)

BET_AMOUNT == 100000000

HOLDER_REWARD_PERCENTAGE == 10

MIN_HOLDER_BALANCE == 1000000000

PAYOUT_INTERVAL == 86400

RENT == 967440

----------------------------------------------------------------------------
(* Bounds of the model *)

\* successful spins by the modelled players
MaxSpins == 1

\* successful distribute_holder_rewards calls
MaxPayouts == 2

\* clock advances, of a payout interval each
MaxTicks == 1

\* unix time of the initial state; in Spec init ran at this time
StartTime == 1000

Users == {"p1", "p2"}

\* the players whose spins precede the modelled ones
Other == "others"

\* how many spins the other players have made when the modelled players
\* start: the outcome stream continues with no win (spin 1), a big win (spin
\* 2), a mega win (spin 3) or a small win (spin 13)
PriorSpins == {0, 1, 2, 12}

Signers == Users \cup {Other}

\* how many spins have been made when the players of WrapSpec start: the
\* next spin takes the u16 counter to 65535, or from 65535 to 0
WrapPriorSpins == {65534, 65535}

----------------------------------------------------------------------------
(* u64 values as 8 little-endian bytes *)

Byte == 0..255

\* a value below 2^31 as a u64
ToU64(n) == [k \in 1..8 |-> IF k <= 4 THEN (n \div (256 ^ (k - 1))) % 256 ELSE 0]

\* the 64 bits of a u64, bit 0 the least significant
BitsOf(s) == [i \in 0..63 |-> (s[(i \div 8) + 1] \div (2 ^ (i % 8))) % 2]

FromBits(b) ==
    [k \in 1..8 |->
        b[8*(k-1)]        + 2 * b[8*(k-1)+1]  + 4 * b[8*(k-1)+2]  + 8 * b[8*(k-1)+3]
      + 16 * b[8*(k-1)+4] + 32 * b[8*(k-1)+5] + 64 * b[8*(k-1)+6] + 128 * b[8*(k-1)+7]]

\* b ^ (b >> k): the bits shifted in are 0
XorShr(b, k) == [i \in 0..63 |-> (b[i] + (IF i + k <= 63 THEN b[i + k] ELSE 0)) % 2]

\* b ^ (b << k): the bits shifted out of the 64 are lost
XorShl(b, k) == [i \in 0..63 |-> (b[i] + (IF i - k >= 0 THEN b[i - k] ELSE 0)) % 2]

\* lib.rs 110-112: the three xor-shifts of xorshift64*.  The nested set
\* constructors only fix the value of each line before the next one uses it.
XorShifts(seed) ==
    CHOOSE r \in
      { FromBits(s3) : s3 \in
        { XorShr(s2, 27) : s2 \in
          { XorShl(s1, 25) : s1 \in
            { XorShr(s0, 12) : s0 \in { BitsOf(seed) } } } } } : TRUE

\* sum of a[i] * c[k+1-i] for i in 1..k: column k of the schoolbook product
RECURSIVE Column(_, _, _, _)
Column(a, c, k, i) ==
    IF i > k THEN 0 ELSE a[i] * c[k + 1 - i] + Column(a, c, k, i + 1)

\* bytes k..8 of the product, given the carry into byte k
RECURSIVE ProductFrom(_, _, _, _)
ProductFrom(a, c, k, carry) ==
    IF k > 8 THEN << >>
    ELSE CHOOSE p \in
           { <<t % 256>> \o ProductFrom(a, c, k + 1, t \div 256) :
               t \in { carry + Column(a, c, k, 1) } } : TRUE

\* a * c modulo 2^64 (wrapping multiplication): the carry out of byte 8 is lost
WrappingMul(a, c) == ProductFrom(a, c, 1, 0)

\* s % m for a small m
RECURSIVE ModFrom(_, _, _)
ModFrom(s, m, k) ==
    IF k > 8 THEN 0 ELSE (s[k] + 256 * ModFrom(s, m, k + 1)) % m

ModU64(s, m) == ModFrom(s, m, 1)

\* 0x2545F4914F6CDD1D
Multiplier == <<29, 221, 108, 79, 145, 244, 69, 37>>

\* lib.rs 109-113: the xorshift64* step on the seed.  The set constructor
\* only fixes the value of the xor-shifts before it is multiplied.
NextSeedWithoutMultiply(seed) == XorShifts(seed)

NextSeed(seed) ==
    CHOOSE r \in { WrappingMul(x, Multiplier) : x \in { XorShifts(seed) } } : TRUE

----------------------------------------------------------------------------
(* Accounts *)

\* the deposit the `init` constraint takes from the payer for an account of
\* `space` bytes: the ledger's rent-exempt minimum, (128 + space) bytes at
\* 3480 lamports per byte-year for 2 years
RentExemptMinimum(space) == (128 + space) * 6960

\* the Treasury's lamports are lamports_hi * LamportsLimb + lamports
LamportsLimb == 2000000000

\* n lamports more, n at most BET_AMOUNT
VaultCredit(v, n) ==
    IF v.lamports + n >= LamportsLimb
    THEN [v EXCEPT !.lamports = @ + n - LamportsLimb, !.lamports_hi = @ + 1]
    ELSE [v EXCEPT !.lamports = @ + n]

\* the Treasury holds at least n lamports
VaultHolds(v, n) == v.lamports_hi > 0 \/ v.lamports >= n

\* n lamports less, for a Treasury that holds them
VaultDebit(v, n) ==
    IF v.lamports >= n
    THEN [v EXCEPT !.lamports = @ - n]
    ELSE [v EXCEPT !.lamports = (LamportsLimb - n) + @, !.lamports_hi = @ - 1]

\* lib.rs 19-28 with CreateVault 228-241: the Treasury as init leaves it
init(unix_timestamp) ==
    [ lamports             |-> RentExemptMinimum(8 + 2 + 8 + 8 + 8),
      lamports_hi          |-> 0,
      spin                 |-> 0,
      seed                 |-> ToU64(RENT),
      total_holder_rewards |-> 0,
      last_payout_time     |-> unix_timestamp ]

\* lib.rs 30-35 with CreateHolderRegistry 258-271
init_holder_registry(unix_timestamp) ==
    [ lamports     |-> RentExemptMinimum(8 + 32 * 100 + 8),
      holders      |-> << >>,
      last_updated |-> unix_timestamp ]

\* lib.rs 37-43 with CreateUserVault 243-256.  The deposit of a UserVault is
\* taken to be RENT, the program's own figure for it (lib.rs 13, 166-168):
\* a new UserVault holds nothing that claim_winnings would pay out.
create_user_vault ==
    [ lamports        |-> RENT,
      rewards_claimed |-> 0 ]

\* what a handler returns: its error and the accounts as it left them
Result(err, acc) == [err |-> err, acc |-> acc]

\* the accounts after the instruction: a handler's writes are kept only if
\* it returned Ok (lib.rs 61, 102, 160, 171); after an Err or a panic the
\* transaction is rolled back
CommitKeepsPartialWrites(before, res) == res.acc

Commit(before, res) == IF res.err = "Ok" THEN res.acc ELSE before

Contains(seq, x) == \E i \in 1..Len(seq) : seq[i] = x

----------------------------------------------------------------------------
(* spin, lib.rs 105-161 *)

\* lib.rs 117
win_decider(seed) == ModU64(seed, 20)

\* lib.rs 118-133: the tier, 0 none, 1 small, 2 big, 3 mega
win(decider) ==
    IF decider > 17 THEN 3
    ELSE IF decider > 14 THEN 2
    ELSE IF decider > 8 THEN 1
    ELSE 0

\* lib.rs 119-133
win_amount_off_by_one(decider) ==
    IF decider > 17 THEN BET_AMOUNT * 2
    ELSE IF decider > 15 THEN BET_AMOUNT
    ELSE IF decider > 8 THEN BET_AMOUNT \div 2
    ELSE 0

win_amount(decider) ==
    IF decider > 17 THEN BET_AMOUNT * 2
    ELSE IF decider > 14 THEN BET_AMOUNT
    ELSE IF decider > 8 THEN BET_AMOUNT \div 2
    ELSE 0

\* lib.rs 149: (win_amount as f64 * 10 as f64 / 100.0) as u64.  The three win
\* amounts and their products by 10 are integers below 2^53 and their
\* hundredths are integers, so the f64 computation is exact and the cast
\* truncates nothing.
holder_reward(amount) == (amount * HOLDER_REWARD_PERCENTAGE) \div 100

\* lib.rs 150
user_winnings_gross(amount, reward) == amount

user_winnings_adds_reward(amount, reward) == amount + reward

user_winnings(amount, reward) == amount - reward

\* lib.rs 156-157: the winnings go from the Treasury to the signer's UserVault
pay_winnings_to_signer(acc, signer, winnings) ==
    [acc EXCEPT !.vault = VaultDebit(@, winnings),
                !.wallet[signer] = @ + winnings]

pay_winnings_without_debit(acc, signer, winnings) ==
    [acc EXCEPT !.user_vault[signer].lamports = @ + winnings]

pay_winnings(acc, signer, winnings) ==
    [acc EXCEPT !.vault = VaultDebit(@, winnings),
                !.user_vault[signer].lamports = @ + winnings]

\* lib.rs 107: += on a u16 wraps
next_spin_unbounded(spin) == spin + 1

next_spin(spin) == (spin + 1) % 65536

\* lib.rs 105-161, with the seed after line 113 already computed
spin_from(acc, signer, seed) ==
    LET decider == win_decider(seed)
        amount  == win_amount(decider)
        reward  == holder_reward(amount)
        winnings == user_winnings(amount, reward)
        \* 106-115
        acc1 == [acc EXCEPT !.vault.spin = next_spin(@),
                            !.vault.seed = seed]
        \* 138-145
        acc2 == [acc1 EXCEPT !.wallet[signer] = @ - BET_AMOUNT,
                             !.vault = VaultCredit(@, BET_AMOUNT)]
        \* 153
        acc3 == [acc2 EXCEPT !.vault.total_holder_rewards = @ + reward]
        \* 156-157
        acc4 == pay_winnings(acc3, signer, winnings)
    IN  IF acc.wallet[signer] < BET_AMOUNT
        THEN Result("InsufficientFunds", acc1)
        ELSE IF win(decider) > 0
        THEN IF ~VaultHolds(acc3.vault, winnings)
             \* line 156 wraps below zero and the runtime rejects the
             \* instruction because the lamports no longer sum to what they were
             THEN Result("VaultLamportsUnderflow", acc3)
             ELSE Result("Ok", acc4)
        ELSE Result("Ok", acc2)

spin(acc, signer) ==
    CHOOSE res \in { spin_from(acc, signer, seed) :
                        seed \in { NextSeed(acc.vault.seed) } } : TRUE

----------------------------------------------------------------------------
(* register_as_holder, lib.rs 45-62 *)

register_as_holder_always_pushes(acc, signer, unix_timestamp) ==
    IF ~(acc.wallet[signer] >= MIN_HOLDER_BALANCE)
    THEN Result("InsufficientHolderBalance", acc)
    ELSE Result("Ok", [acc EXCEPT !.holder_registry.holders = Append(@, signer),
                                  !.holder_registry.last_updated = unix_timestamp])

register_as_holder(acc, signer, unix_timestamp) ==
    IF ~(acc.wallet[signer] >= MIN_HOLDER_BALANCE)
    THEN Result("InsufficientHolderBalance", acc)
    ELSE IF ~Contains(acc.holder_registry.holders, signer)
    THEN Result("Ok", [acc EXCEPT !.holder_registry.holders = Append(@, signer),
                                  !.holder_registry.last_updated = unix_timestamp])
    ELSE Result("Ok", acc)

----------------------------------------------------------------------------
(* distribute_holder_rewards, lib.rs 64-103 *)

\* lib.rs 75
payout_due_strict(current_time, last_payout_time) ==
    current_time > last_payout_time + PAYOUT_INTERVAL

payout_due(current_time, last_payout_time) ==
    current_time >= last_payout_time + PAYOUT_INTERVAL

\* lib.rs 86
reward_per_holder_whole_pool(total_rewards, holder_count) == total_rewards

reward_per_holder(total_rewards, holder_count) == total_rewards \div holder_count

\* lib.rs 96
remaining_rewards_keeps_total(total_rewards, reward) == total_rewards

remaining_rewards(total_rewards, reward) == total_rewards - reward

\* lib.rs 98-100
next_last_payout_time_always(remaining, current_time, last_payout_time) ==
    current_time

next_last_payout_time_never(remaining, current_time, last_payout_time) ==
    last_payout_time

next_last_payout_time(remaining, current_time, last_payout_time) ==
    IF remaining = 0 THEN current_time ELSE last_payout_time

\* `to` is the identity whose UserVault was passed as user_vault (lib.rs
\* 288-289 puts no seeds constraint on it)
distribute_holder_rewards(acc, signer, to, current_time) ==
    LET last_payout_time == acc.vault.last_payout_time
        total_rewards    == acc.vault.total_holder_rewards
        holder_count     == Len(acc.holder_registry.holders)
    IN  IF ~payout_due(current_time, last_payout_time)
        THEN Result("PayoutTooEarly", acc)
        ELSE IF ~(total_rewards > 0)
        THEN Result("NoRewardsToDistribute", acc)
        ELSE IF ~(holder_count > 0)
        THEN Result("NoHoldersRegistered", acc)
        ELSE IF ~Contains(acc.holder_registry.holders, signer)
        THEN Result("NotRegisteredHolder", acc)
        ELSE
        LET reward    == reward_per_holder(total_rewards, holder_count)
            remaining == remaining_rewards(total_rewards, reward)
            \* 92-93
            acc1 == [acc EXCEPT !.vault = VaultDebit(@, reward),
                                !.user_vault[to].lamports = @ + reward]
            \* 96-100
            acc2 == [acc1 EXCEPT
                       !.vault.total_holder_rewards = remaining,
                       !.vault.last_payout_time =
                           next_last_payout_time(remaining, current_time, @)]
        IN  IF ~VaultHolds(acc.vault, reward)
            THEN Result("VaultLamportsUnderflow", acc)
            ELSE Result("Ok", acc2)

----------------------------------------------------------------------------
(* claim_winnings, lib.rs 163-172 *)

claim_winnings_empties_vault(acc, signer) ==
    LET user_vault_lamports == acc.user_vault[signer].lamports
        signer_lamports     == acc.wallet[signer]
    IN  IF user_vault_lamports < RENT
        THEN Result("Panic", acc)
        ELSE Result("Ok", [acc EXCEPT !.user_vault[signer].lamports = 0,
                                      !.wallet[signer] = signer_lamports + user_vault_lamports])

claim_winnings(acc, signer) ==
    LET user_vault_lamports == acc.user_vault[signer].lamports
        signer_lamports     == acc.wallet[signer]
        claimable           == user_vault_lamports - RENT
    IN  IF user_vault_lamports < RENT
        \* checked_sub(RENT).unwrap() panics
        THEN Result("Panic", acc)
        ELSE Result("Ok", [acc EXCEPT !.user_vault[signer].lamports = RENT,
                                      !.wallet[signer] = signer_lamports + claimable])

----------------------------------------------------------------------------
(* The state *)

VARIABLES
    vault,            \* the Treasury: lamports, lamports_hi, spin, seed, total_holder_rewards, last_payout_time
    holder_registry,  \* lamports, holders, last_updated
    user_vault,       \* per identity: lamports, rewards_claimed
    wallet,           \* per identity: the lamports of the signer's own account
    now,              \* Clock::get()?.unix_timestamp
    last,             \* the last instruction: op, signer, err, paid (what a payout or a claim paid)
    prior,            \* history: the spin counter when the modelled players start
    payouts,          \* history: successful distribute_holder_rewards calls
    accrued,          \* history: sum of holder_reward over the successful winning spins
    paid_out,         \* history: sum of the rewards paid by distribute_holder_rewards
    claimed,          \* history, per identity: sum of what claim_winnings paid to it
    gate              \* history: time of init or of the last payout that emptied the pool

accounts_vars == <<vault, holder_registry, user_vault, wallet>>

history_vars == <<prior, payouts, accrued, paid_out, claimed, gate>>

vars == <<vault, holder_registry, user_vault, wallet, now, last,
          prior, payouts, accrued, paid_out, claimed, gate>>

\* the accounts as one record, as the handlers take them
Accounts ==
    [ vault           |-> vault,
      holder_registry |-> holder_registry,
      user_vault      |-> user_vault,
      wallet          |-> wallet ]

\* the accounts after an instruction
Store(acc) ==
    /\ vault' = acc.vault
    /\ holder_registry' = acc.holder_registry
    /\ user_vault' = acc.user_vault
    /\ wallet' = acc.wallet

Op(op, signer, err) == [op |-> op, signer |-> signer, err |-> err, paid |-> 0]

\* what a player holds after paying for the UserVault: too little for a
\* stake, just enough to register as holder (a stake then takes the player
\* below MIN_HOLDER_BALANCE), or enough to register, stake once and still
\* register
PoorBalance == BET_AMOUNT \div 2

HolderBalance == MIN_HOLDER_BALANCE

RichBalance == MIN_HOLDER_BALANCE + BET_AMOUNT

\* the first player can register as holder, the second may or may not
InitialBalances ==
    { [u \in Users |-> IF u = "p1" THEN HolderBalance ELSE b] :
        b \in {PoorBalance, RichBalance} }

\* the accounts once init, init_holder_registry and every create_user_vault
\* have run at StartTime
Constructed(balances) ==
    [ vault           |-> init(StartTime),
      holder_registry |-> init_holder_registry(StartTime),
      user_vault      |-> [u \in Signers |-> create_user_vault],
      wallet          |-> [u \in Signers |->
                             IF u = Other THEN 12 * BET_AMOUNT
                             ELSE balances[u]] ]

\* the accounts after n spins by the other players
RECURSIVE Played(_, _)
Played(n, acc) ==
    IF n = 0 THEN acc
    ELSE CHOOSE a \in { Commit(before, spin(before, Other)) :
                           before \in { Played(n - 1, acc) } } : TRUE

Init ==
    \E n \in PriorSpins, balances \in InitialBalances :
        \E acc \in { Played(n, Constructed(balances)) } :
            /\ vault = acc.vault
            /\ holder_registry = acc.holder_registry
            /\ user_vault = acc.user_vault
            /\ wallet = acc.wallet
            /\ now = StartTime
            /\ last = Op("init", Other, "Ok")
            /\ prior = n
            /\ payouts = 0
            /\ accrued = acc.vault.total_holder_rewards
            /\ paid_out = 0
            /\ claimed = [u \in Users |-> 0]
            /\ gate = StartTime

----------------------------------------------------------------------------
(* The instructions *)

\* seed is the seed after lines 109-113, the same whoever signs
SpinBy(signer, seed) ==
    /\ \E res \in { spin_from(Accounts, signer, seed) } :
        \E acc \in { Commit(Accounts, res) } :
            /\ Store(acc)
            /\ last' = Op("spin", signer, res.err)
            /\ accrued' = IF res.err = "Ok"
                          THEN accrued + holder_reward(win_amount(win_decider(acc.vault.seed)))
                          ELSE accrued
    /\ UNCHANGED <<now, prior, payouts, paid_out, claimed, gate>>

\* one spin, its seed computed once for the state
Spin ==
    /\ (vault.spin - prior) % 65536 < MaxSpins
    /\ \E seed \in { NextSeed(vault.seed) } : \E signer \in Users : SpinBy(signer, seed)

RegisterAsHolder(signer) ==
    /\ \E res \in { register_as_holder(Accounts, signer, now) } :
        \E acc \in { Commit(Accounts, res) } :
            /\ Store(acc)
            /\ last' = Op("register_as_holder", signer, res.err)
    /\ UNCHANGED <<now, prior, payouts, accrued, paid_out, claimed, gate>>

DistributeHolderRewards(signer, to) ==
    /\ payouts < MaxPayouts
    /\ \E res \in { distribute_holder_rewards(Accounts, signer, to, now) } :
        \E acc \in { Commit(Accounts, res) } :
            LET paid == acc.user_vault[to].lamports - user_vault[to].lamports IN
            /\ Store(acc)
            /\ last' = [Op("distribute_holder_rewards", signer, res.err) EXCEPT !.paid = paid]
            /\ payouts' = IF res.err = "Ok" THEN payouts + 1 ELSE payouts
            /\ paid_out' = paid_out + paid
            /\ gate' = IF res.err = "Ok" /\ acc.vault.total_holder_rewards = 0
                       THEN now ELSE gate
    /\ UNCHANGED <<now, prior, accrued, claimed>>

ClaimWinnings(signer) ==
    /\ \E res \in { claim_winnings(Accounts, signer) } :
        \E acc \in { Commit(Accounts, res) } :
            LET paid == acc.wallet[signer] - wallet[signer] IN
            /\ Store(acc)
            /\ last' = [Op("claim_winnings", signer, res.err) EXCEPT !.paid = paid]
            /\ claimed' = [claimed EXCEPT ![signer] = @ + paid]
    /\ UNCHANGED <<now, prior, payouts, accrued, paid_out, gate>>

\* the clock moves on by a payout interval
Tick ==
    /\ now < StartTime + MaxTicks * PAYOUT_INTERVAL
    /\ now' = now + PAYOUT_INTERVAL
    /\ UNCHANGED <<accounts_vars, last, history_vars>>

Next ==
    \/ Spin
    \/ \E signer \in Users : RegisterAsHolder(signer)
    \/ \E signer \in Users, to \in Users : DistributeHolderRewards(signer, to)
    \/ \E signer \in Users : ClaimWinnings(signer)
    \/ Tick

Spec == Init /\ [][Next]_vars

----------------------------------------------------------------------------
(* The program after 65534 and after 65535 spins *)

\* the Treasury after one more spin by an outside player who holds the
\* stake, once the holder reward of the spin has been paid out of the pool
\* again: the counter and the seed move on (lib.rs 107-115), the stake comes
\* in (145) and the win amount has left, winnings (156) and reward (92)
SpunAndPaidOutFrom(v, seed) ==
    LET amount == win_amount(win_decider(seed))
        staked == VaultCredit([v EXCEPT !.spin = next_spin(@), !.seed = seed], BET_AMOUNT)
    IN  IF VaultHolds(staked, user_winnings(amount, holder_reward(amount)))
        THEN VaultDebit(staked, amount)
        ELSE v

SpunAndPaidOut(v) ==
    CHOOSE w \in { SpunAndPaidOutFrom(v, seed) : seed \in { NextSeed(v.seed) } } : TRUE

\* the Treasury after n such spins, the seed computed before the rest
RECURSIVE PlayedOut(_, _)
PlayedOut(n, v) ==
    IF n = 0 THEN v
    ELSE IF n = 1
    THEN CHOOSE w \in { SpunAndPaidOut(v) } : TRUE
    ELSE CHOOSE w \in { PlayedOut(n - (n \div 2), half) :
                           half \in { PlayedOut(n \div 2, v) } } : TRUE

\* the accounts at StartTime, n spins after an init that ran at least a
\* payout interval earlier: the outside players have claimed their winnings,
\* one of them registered as holder at StartTime and, the only holder, has
\* just been paid the whole pool
WrapConstructed(balances, v) ==
    [ vault           |-> [v EXCEPT !.total_holder_rewards = 0,
                                    !.last_payout_time = StartTime],
      holder_registry |-> [init_holder_registry(StartTime) EXCEPT !.holders = <<Other>>],
      user_vault      |-> [u \in Signers |-> create_user_vault],
      wallet          |-> [u \in Signers |->
                             IF u = Other THEN MIN_HOLDER_BALANCE
                             ELSE balances[u]] ]

WrapInit ==
    \E first \in { PlayedOut(65534, init(StartTime)) } :
    \E n \in WrapPriorSpins, balances \in InitialBalances :
        \E acc \in { WrapConstructed(balances, PlayedOut(n - 65534, first)) } :
            /\ vault = acc.vault
            /\ holder_registry = acc.holder_registry
            /\ user_vault = acc.user_vault
            /\ wallet = acc.wallet
            /\ now = StartTime
            /\ last = Op("init", Other, "Ok")
            /\ prior = acc.vault.spin
            /\ payouts = 0
            /\ accrued = 0
            /\ paid_out = 0
            /\ claimed = [u \in Users |-> 0]
            /\ gate = StartTime

WrapSpec == WrapInit /\ [][Next]_vars

----------------------------------------------------------------------------
(* Properties *)

\* the lamports the Treasury was created with
TreasuryDeposit == init(StartTime).lamports

\* a step in which a spin succeeded: only a successful spin changes vault.spin
SpinStep == vault'.spin # vault.spin

\* a step in which a payout succeeded
PayoutStep == payouts' = payouts + 1

\* C1: in every reachable state rewardPoolBalance equals the sum of the
\* holderReward amounts of the successful winning spins minus the sum of the
\* shares paid by the successful distributions, and it is not negative.  The
\* two sums change in no losing spin, registration or claim, so neither
\* does the pool.
C1_PoolIsAccruedMinusPaid ==
    /\ vault.total_holder_rewards = accrued - paid_out
    /\ vault.total_holder_rewards >= 0

\* a state in which wins have accrued to the pool and a share has been paid
C1_Witness ==
    /\ vault.spin > prior
    /\ accrued > 0
    /\ paid_out > 0
    /\ vault.total_holder_rewards > 0

\* C2: in every reachable state rewardPoolBalance does not exceed what the
\* Treasury holds above its creation deposit.
C2_PoolCoveredByTreasury ==
    vault.total_holder_rewards <= vault.lamports - TreasuryDeposit

\* after the mega win of spin 3 and a payout the Treasury holds exactly its
\* deposit and the pool
C2_Witness ==
    /\ last.op = "distribute_holder_rewards"
    /\ last.err = "Ok"
    /\ vault.spin = 3
    /\ prior = 2
    /\ vault.total_holder_rewards > 0
    /\ vault.total_holder_rewards = vault.lamports - TreasuryDeposit

\* C3: every successful spin takes exactly BET_AMOUNT from the signer's own
\* lamports and changes no other wallet; what the Treasury does not keep of
\* the stake goes to the signer's UserVault.
C3_SpinChargesExactlyTheBet ==
    [][SpinStep =>
        \E signer \in Users :
            /\ last'.signer = signer
            /\ wallet' = [wallet EXCEPT ![signer] = @ - BET_AMOUNT]
            /\ \E won \in { BET_AMOUNT - (vault'.lamports - vault.lamports) } :
                /\ won >= 0
                /\ user_vault' = [user_vault EXCEPT ![signer].lamports = @ + won]
      ]_vars

\* a winning spin has just been made: the signer paid the stake and the
\* winnings sit in the UserVault
C3_Witness ==
    /\ last.op = "spin"
    /\ last.err = "Ok"
    /\ win(win_decider(vault.seed)) > 0
    /\ user_vault[last.signer].lamports > create_user_vault.lamports
    /\ wallet[last.signer] = RichBalance - BET_AMOUNT

\* the payout of the claim for each value of generatorState mod 20
C4_Payout(d) ==
    CASE d \in 0..8   -> 0
      [] d \in 9..14  -> BET_AMOUNT \div 2
      [] d \in 15..17 -> BET_AMOUNT
      [] d \in 18..19 -> 2 * BET_AMOUNT

\* C4: for d = generatorState mod 20 after the generator step the payout is 0
\* for d in 0..8, BET_AMOUNT/2 for 9..14, BET_AMOUNT for 15..17 and
\* 2*BET_AMOUNT for 18..19; a successful spin adds holderReward =
\* floor(payout*10/100) to the pool and moves userWinnings = payout -
\* holderReward from the Treasury to the signer's UserVault, and with d in
\* 0..8 it changes neither the pool nor any UserVault.
C4_TiersAndAmounts ==
    /\ \A d \in 0..19 :
            /\ win_amount(d) = C4_Payout(d)
            /\ (win(d) = 0) = (d \in 0..8)
            /\ holder_reward(C4_Payout(d)) + user_winnings(C4_Payout(d), holder_reward(C4_Payout(d)))
                  = C4_Payout(d)
    /\ [][SpinStep =>
            \E d \in { ModU64(vault'.seed, 20) } :
            \E payout \in { C4_Payout(d) } :
            \E holderReward \in { (payout * 10) \div 100 } :
                /\ vault'.total_holder_rewards = vault.total_holder_rewards + holderReward
                /\ vault'.lamports = vault.lamports + BET_AMOUNT - (payout - holderReward)
                /\ user_vault' = [user_vault EXCEPT ![last'.signer].lamports =
                                                        @ + (payout - holderReward)]
                /\ d \in 0..8 => /\ vault'.total_holder_rewards = vault.total_holder_rewards
                                 /\ user_vault' = user_vault
      ]_vars

\* a small win (spin 13 or 14): 5000000 to the pool, 45000000 to the UserVault
C4_Witness ==
    /\ last.op = "spin"
    /\ last.err = "Ok"
    /\ win_decider(vault.seed) \in 9..14
    /\ vault.total_holder_rewards = accrued
    /\ user_vault[last.signer].lamports = create_user_vault.lamports + 45000000

\* a step in which signer called distribute_holder_rewards: every other
\* instruction records itself in last and the clock step moves now
PayoutCall(signer) ==
    /\ last'.op = "distribute_holder_rewards"
    /\ last'.signer = signer
    /\ now' = now

C6_SpinFailsOnlyForTheStake ==
    [][\A signer \in Users :
          (/\ last'.op = "spin"
           /\ last'.signer = signer
           /\ last'.err # "Ok") => wallet[signer] < BET_AMOUNT
      ]_vars

\* the mega win of spin 3 has just been paid by a Treasury that held less
\* than the winnings before the stake came in
C6_Witness ==
    /\ last.op = "spin"
    /\ last.err = "Ok"
    /\ win(win_decider(vault.seed)) = 3
    /\ vault.lamports + user_winnings(2 * BET_AMOUNT, holder_reward(2 * BET_AMOUNT)) - BET_AMOUNT
          < user_winnings(2 * BET_AMOUNT, holder_reward(2 * BET_AMOUNT))

\* the error the claim gives for the first violated precondition
C7_Expected(signer) ==
    IF now < vault.last_payout_time + PAYOUT_INTERVAL THEN "PayoutTooEarly"
    ELSE IF vault.total_holder_rewards = 0 THEN "NoRewardsToDistribute"
    ELSE IF holder_registry.holders = << >> THEN "NoHoldersRegistered"
    ELSE IF \A i \in DOMAIN holder_registry.holders : holder_registry.holders[i] # signer
         THEN "NotRegisteredHolder"
    ELSE "Ok"

\* C7: distribute_holder_rewards rejects with PayoutTooEarly, else
\* NoRewardsToDistribute, else NoHoldersRegistered, else NotRegisteredHolder,
\* the first precondition violated in this order, and changes no account.
C7_FirstViolatedPrecondition ==
    [][\A signer \in Users :
          (PayoutCall(signer) /\ C7_Expected(signer) # "Ok") =>
              /\ last'.err = C7_Expected(signer)
              /\ UNCHANGED accounts_vars
      ]_vars

\* a call by a signer who is not in the registry, which has holders, when
\* the payout is due and the pool is not empty
C7_Witness ==
    /\ last.op = "distribute_holder_rewards"
    /\ last.err = "NotRegisteredHolder"
    /\ now >= vault.last_payout_time + PAYOUT_INTERVAL
    /\ vault.total_holder_rewards > 0
    /\ Len(holder_registry.holders) > 0

\* C8: a successful payout pays share = floor(pool / holder count), takes
\* it from the pool and from the Treasury's lamports, adds it to the credited
\* UserVault, and sets last_payout_time to the current time exactly when the
\* pool is then 0 and leaves it otherwise.
C8_PayoutEffect ==
    [][PayoutStep =>
        \E share \in { vault.total_holder_rewards \div Len(holder_registry.holders) } :
            /\ vault'.total_holder_rewards = vault.total_holder_rewards - share
            /\ vault'.lamports = vault.lamports - share
            /\ \E to \in Users :
                  user_vault' = [user_vault EXCEPT ![to].lamports = @ + share]
            /\ vault'.last_payout_time =
                  IF vault'.total_holder_rewards = 0 THEN now
                  ELSE vault.last_payout_time
            /\ vault'.spin = vault.spin
            /\ vault'.seed = vault.seed
            /\ UNCHANGED <<wallet, holder_registry>>
      ]_vars

\* a payout to one of two holders has left half the pool and the payout time
\* of init
C8_Witness ==
    /\ last.op = "distribute_holder_rewards"
    /\ last.err = "Ok"
    /\ last.paid > 0
    /\ Len(holder_registry.holders) = 2
    /\ vault.total_holder_rewards > 0
    /\ vault.last_payout_time = StartTime
    /\ now > StartTime

\* C9: equal shares within a cycle: from a pool P with n holders and no
\* spin or registration in between, each of the distinct holders who call
\* distribute_holder_rewards once is paid floor(P/n).  Stated for a payout
\* that directly follows the payout of another holder, P being the pool
\* before the first of the two: both are paid floor(P/n) and P - 2*floor(P/n)
\* is left.
C9_EqualSharesWithinCycle ==
    [][(/\ PayoutStep
        /\ last.op = "distribute_holder_rewards"
        /\ last.err = "Ok"
        /\ last.signer # last'.signer) =>
            \E P \in { vault.total_holder_rewards + last.paid } :
            \E n \in { Len(holder_registry.holders) } :
                /\ last.paid = P \div n
                /\ last'.paid = P \div n
                /\ vault'.total_holder_rewards = P - 2 * (P \div n)
      ]_vars

\* C10: no payout call succeeds before init time + PAYOUT_INTERVAL, and
\* after a payout that emptied the pool at time t every call before t +
\* PAYOUT_INTERVAL fails with PayoutTooEarly, whoever calls and whatever the
\* pool has become (gate is the time of init or of the last such payout).
C10_TimeGate ==
    [][\A signer \in Users :
          (PayoutCall(signer) /\ now < gate + PAYOUT_INTERVAL) =>
              /\ last'.err = "PayoutTooEarly"
              /\ UNCHANGED accounts_vars
      ]_vars

\* a payout emptied the pool, a winning spin refilled it, and the next call
\* came too early
C10_Witness ==
    /\ last.op = "distribute_holder_rewards"
    /\ last.err = "PayoutTooEarly"
    /\ gate > StartTime
    /\ now < gate + PAYOUT_INTERVAL
    /\ vault.spin > prior
    /\ vault.total_holder_rewards > 0

\* a step in which signer called register_as_holder
RegisterCall(signer) ==
    /\ last'.op = "register_as_holder"
    /\ last'.signer = signer
    /\ now' = now

NoDuplicates(seq) == \A i, j \in 1..Len(seq) : seq[i] = seq[j] => i = j

\* C11: holders never holds an identity twice; no step removes or reorders
\* an entry, whatever becomes of the holder's balance; last_updated changes
\* only in a register_as_holder call that appends the signer, who was not
\* in holders; a call by a signer already in holders that succeeds leaves
\* holders and last_updated as they were.
C11_HoldersAppendOnly ==
    /\ NoDuplicates(holder_registry.holders)
    /\ [][/\ NoDuplicates(holder_registry'.holders)
          /\ Len(holder_registry'.holders) >= Len(holder_registry.holders)
          /\ SubSeq(holder_registry'.holders, 1, Len(holder_registry.holders))
                = holder_registry.holders
          /\ holder_registry' # holder_registry =>
                \E signer \in Users :
                    /\ RegisterCall(signer)
                    /\ last'.err = "Ok"
                    /\ \A i \in 1..Len(holder_registry.holders) :
                          holder_registry.holders[i] # signer
                    /\ holder_registry'.holders = holder_registry.holders \o <<signer>>
                    /\ holder_registry'.last_updated = now
          /\ \A signer \in Users :
                (/\ RegisterCall(signer)
                 /\ last'.err = "Ok"
                 /\ \E i \in 1..Len(holder_registry.holders) :
                       holder_registry.holders[i] = signer) =>
                    UNCHANGED holder_registry
         ]_vars

\* both players are holders, the first no longer holds MIN_HOLDER_BALANCE,
\* and the second has just registered again, a payout interval after the
\* last insertion
C11_Witness ==
    /\ last.op = "register_as_holder"
    /\ last.err = "Ok"
    /\ Len(holder_registry.holders) = 2
    /\ holder_registry.last_updated = StartTime
    /\ now > StartTime
    /\ \E i \in 1..2 : wallet[holder_registry.holders[i]] < MIN_HOLDER_BALANCE

\* C12: a register_as_holder call by an identity already in holders returns
\* no error and leaves holders and last_updated unchanged, also when the
\* identity's balance has fallen below MIN_HOLDER_BALANCE.
C12_ReRegisteringIsNoError ==
    [][\A signer \in Users :
          (/\ RegisterCall(signer)
           /\ \E i \in 1..Len(holder_registry.holders) :
                 holder_registry.holders[i] = signer) =>
              /\ last'.err = "Ok"
              /\ UNCHANGED holder_registry
      ]_vars

\* a step in which signer called claim_winnings
ClaimCall(signer) ==
    /\ last'.op = "claim_winnings"
    /\ last'.signer = signer
    /\ now' = now

\* C13: claim_winnings on a UserVault holding RENT + x, x >= 0, succeeds,
\* leaves it holding exactly RENT and adds exactly x to the signer's lamports;
\* no other UserVault, wallet, nor the Treasury or the registry changes; with
\* x = 0 nothing changes.  It fails only on a UserVault holding less than RENT.
C13_ClaimPaysTheExcess ==
    [][\A signer \in Users :
          ClaimCall(signer) =>
              \E x \in { user_vault[signer].lamports - RENT } :
                  IF x >= 0
                  THEN /\ last'.err = "Ok"
                       /\ user_vault'[signer].lamports = RENT
                       /\ \A u \in Signers \ {signer} : user_vault'[u] = user_vault[u]
                       /\ wallet' = [wallet EXCEPT ![signer] = @ + x]
                       /\ UNCHANGED <<vault, holder_registry>>
                       /\ x = 0 => UNCHANGED accounts_vars
                  ELSE /\ last'.err # "Ok"
                       /\ UNCHANGED accounts_vars
      ]_vars

\* a claim that paid nothing has just succeeded on a UserVault that an
\* earlier claim had brought down to RENT
C13_Witness ==
    /\ last.op = "claim_winnings"
    /\ last.err = "Ok"
    /\ last.paid = 0
    /\ claimed[last.signer] > 0
    /\ user_vault[last.signer].lamports = RENT

\* C14: in every reachable state rewards_claimed of every UserVault is the
\* sum of what the successful claim_winnings calls have withdrawn from it.
C14_ClaimedTotalIsCumulative ==
    \A u \in Users : user_vault[u].rewards_claimed = claimed[u]

\* C15: a successful distribute_holder_rewards call changes the lamports of
\* the signer's own UserVault and of no other UserVault, whichever UserVault
\* the signer passes.
C15_PayoutGoesToTheCaller ==
    [][PayoutStep =>
          /\ user_vault'[last'.signer].lamports = user_vault[last'.signer].lamports + last'.paid
          /\ \A u \in Signers \ {last'.signer} : user_vault'[u] = user_vault[u]
      ]_vars

\* the xorshift64* stream from 967440, as 8 little-endian bytes each:
\* s ^= s >> 12; s ^= s << 25; s ^= s >> 27; s *= 0x2545F4914F6CDD1D, all
\* modulo 2^64, applied 1, 2, ... 15 times (reference values, computed apart
\* from the operators of this module)
ReferenceSeeds ==
    << <<87, 158, 19, 40, 104, 134, 118, 68>>,
       <<76, 249, 240, 51, 94, 69, 164, 58>>,
       <<3, 89, 187, 34, 19, 86, 48, 203>>,
       <<231, 26, 161, 206, 224, 240, 199, 108>>,
       <<199, 143, 179, 196, 231, 11, 148, 198>>,
       <<83, 149, 116, 22, 222, 10, 64, 204>>,
       <<127, 104, 180, 177, 5, 124, 170, 96>>,
       <<245, 184, 218, 202, 171, 157, 231, 83>>,
       <<127, 73, 224, 110, 16, 196, 43, 186>>,
       <<160, 114, 234, 117, 133, 81, 98, 157>>,
       <<63, 39, 255, 249, 109, 131, 120, 129>>,
       <<11, 117, 38, 30, 105, 52, 10, 175>>,
       <<140, 71, 221, 68, 108, 132, 194, 113>>,
       <<214, 158, 110, 13, 252, 171, 137, 235>>,
       <<14, 70, 44, 22, 124, 122, 141, 43>> >>

\* the reference values modulo 20
ReferenceDeciders == <<3, 16, 19, 15, 15, 15, 3, 1, 15, 4, 15, 3, 12, 10, 10>>

\* the generator state after n successful spins
ReferenceSeed(n) == IF n = 0 THEN <<16, 195, 14, 0, 0, 0, 0, 0>> ELSE ReferenceSeeds[n]

\* C16: after n successful spins the seed is the n-fold xorshift64* step of
\* the constant init sets, and the decider of the n-th spin is that seed
\* modulo 20, whoever spun; the seed changes in no step but a successful
\* spin, so registrations, payouts, claims, failed spins and the clock
\* leave the outcome stream where it was.
C16_OutcomeStreamIsDeterministic ==
    /\ vault.spin <= Len(ReferenceSeeds) => vault.seed = ReferenceSeed(vault.spin)
    /\ [][/\ vault'.spin <= Len(ReferenceSeeds) => vault'.seed = ReferenceSeed(vault'.spin)
          /\ SpinStep =>
                /\ vault'.spin = vault.spin + 1
                /\ vault'.spin <= Len(ReferenceSeeds) =>
                      \E d \in { ReferenceDeciders[vault'.spin] } :
                          /\ win_decider(vault'.seed) = d
                          /\ vault'.total_holder_rewards - vault.total_holder_rewards
                                = (C4_Payout(d) * 10) \div 100
                          /\ user_vault'[last'.signer].lamports - user_vault[last'.signer].lamports
                                = C4_Payout(d) - (C4_Payout(d) * 10) \div 100
          /\ vault'.seed # vault.seed =>
                /\ last'.op = "spin"
                /\ last'.err = "Ok"
                /\ SpinStep
         ]_vars

\* thirteen spins have succeeded, the last by one of the players, who has
\* then claimed the winnings: the seed is the thirteenth of the stream
C16_Witness ==
    /\ last.op = "claim_winnings"
    /\ last.err = "Ok"
    /\ last.paid > 0
    /\ prior = 12
    /\ vault.spin = 13
    /\ vault.seed = ReferenceSeeds[13]

\* a step in which signer called spin
SpinCall(signer) ==
    /\ last'.op = "spin"
    /\ last'.signer = signer
    /\ now' = now

\* C17: a spin by a signer who holds the stake succeeds and takes the spin
\* counter from 65535 to 0 and from any other value to the next; a spin
\* that fails and every other step leave the counter alone; what a spin adds
\* to the pool is added without wrapping.
C17_SpinCounterWraps ==
    [][/\ \A signer \in Users :
            (SpinCall(signer) /\ wallet[signer] >= BET_AMOUNT) =>
                /\ last'.err = "Ok"
                /\ vault'.spin = IF vault.spin = 65535 THEN 0 ELSE vault.spin + 1
                /\ vault'.total_holder_rewards =
                      vault.total_holder_rewards
                        + (C4_Payout(ModU64(vault'.seed, 20)) * 10) \div 100
       /\ (\A signer \in Users : ~(SpinCall(signer) /\ last'.err = "Ok")) =>
            vault'.spin = vault.spin
      ]_vars

\* the spin made at counter 65535 has succeeded: the counter is 0, the seed
\* is the reference value of the 65536th step of the stream (a small win)
\* and the pool holds the reward of the win
C17_Witness ==
    /\ last.op = "spin"
    /\ last.err = "Ok"
    /\ prior = 65535
    /\ vault.spin = 0
    /\ vault.seed = <<203, 11, 170, 110, 56, 179, 75, 162>>
    /\ vault.total_holder_rewards = 5000000

\* C18: a holder is paid at most once per payout cycle.  Stated for the call
\* that directly follows the holder's own successful payout while the pool is
\* not empty: it pays nothing.
C18_OneSharePerCycle ==
    [][\A signer \in Users :
          (/\ PayoutCall(signer)
           /\ last.op = "distribute_holder_rewards"
           /\ last.err = "Ok"
           /\ last.signer = signer
           /\ vault.total_holder_rewards > 0) =>
              /\ last'.err # "Ok"
              /\ UNCHANGED accounts_vars
      ]_vars

RECURSIVE SumOver(_, _)
SumOver(f, S) ==
    IF S = {} THEN 0
    ELSE LET u == CHOOSE x \in S : TRUE IN f[u] + SumOver(f, S \ {u})

\* what a step adds to the lamports of the wallets, of the UserVaults and of
\* the Treasury together
C19_Gain ==
    SumOver([u \in Signers |-> wallet'[u] - wallet[u]], Signers)
      + SumOver([u \in Signers |-> user_vault'[u].lamports - user_vault[u].lamports], Signers)
      + (vault'.lamports_hi - vault.lamports_hi) * LamportsLimb
      + (vault'.lamports - vault.lamports)

\* C19: value is conserved: no spin, payout, claim or registration changes
\* the sum of the lamports of the wallets, of the Treasury and of the
\* UserVaults.
C19_ValueConserved ==
    [][C19_Gain = 0]_vars

\* a player has won, has been paid a holder's share and has claimed both
C19_Witness ==
    /\ last.op = "claim_winnings"
    /\ last.err = "Ok"
    /\ last.paid > 0
    /\ vault.spin # prior
    /\ paid_out > 0
    /\ claimed[last.signer] > paid_out

\* C20: with two or more holders a successful payout leaves the pool above
\* zero and last_payout_time as it was; the pool goes from above zero to zero,
\* and last_payout_time changes, only in a payout made with one holder.
C20_OnlyASoleHolderDrains ==
    [][/\ (PayoutStep /\ Len(holder_registry.holders) >= 2) =>
            /\ vault'.total_holder_rewards > 0
            /\ vault'.last_payout_time = vault.last_payout_time
       /\ (\/ vault'.last_payout_time # vault.last_payout_time
           \/ (vault.total_holder_rewards > 0 /\ vault'.total_holder_rewards = 0)) =>
            /\ PayoutStep
            /\ Len(holder_registry.holders) = 1
            /\ vault'.total_holder_rewards = 0
            /\ vault'.last_payout_time = now
      ]_vars

\* two payouts with two holders have left part of the pool and the payout
\* time of init
C20_Witness ==
    /\ payouts = 2
    /\ Len(holder_registry.holders) = 2
    /\ last.op = "distribute_holder_rewards"
    /\ last.err = "Ok"
    /\ vault.total_holder_rewards > 0
    /\ vault.total_holder_rewards = accrued - paid_out
    /\ vault.last_payout_time = StartTime

====
